---- MODULE Spec2Model ----
(***************************************************************************)
(* Model of astrbot_plugin_personal_selfupdate: the command handler        *)
(* (main.py), the bounded tool-calling agent loop it drives, the two       *)
(* persona tools (core/tools.py) and _format_tools (core/textbuild.py).    *)
(*                                                                         *)
(* Python strings that the code inspects (strip, split, `in`) are          *)
(* sequences of one-character strings.  A CJK character of the source is   *)
(* written as its pinyin syllable, one syllable per character, because     *)
(* module text is ASCII.  Strings the code only passes around (tool names, *)
(* persona ids, error texts) are plain TLA+ strings.                       *)
(***************************************************************************)
EXTENDS Naturals, Sequences, FiniteSets, TLC

VARIABLES
    pc,             \* position of the command handler / agent loop
    config,         \* the plugin's configured provider id ("" when unset)
    message_str,    \* event.message_str
    system_prompt,  \* the system prompt built for this command
    provider,       \* the provider _resolve_provider returned
    out,            \* messages the handler has yielded to the chat, in order
    messages,       \* the loop's transcript (main.py:183)
    current_prompt, \* main.py:184
    calls,          \* provider.text_chat calls made so far in this command
    chat_args,      \* the arguments of the latest provider.text_chat call
    response,       \* the provider's latest response (main.py:189)
    idx,            \* position of the dispatch loop in the zip (main.py:213)
    tool_results,   \* main.py:206
    outcome,        \* how _run_agent_conversation ended
    store,          \* the host's persona store
    hostlog,        \* calls made to the host persona manager and provider
    richLeft,       \* tool calls the provider may still place in varied responses
    kwargs,         \* arguments of a directly invoked tool handler
    returned,       \* what the directly invoked handler returned
    raw_text,       \* argument of _extract_completion_text
    summary,        \* result of _extract_completion_text
    tools,          \* argument of _format_tools
    tools_text      \* result of _format_tools

vars == <<pc, config, message_str, system_prompt, provider, out, messages,
          current_prompt, calls, chat_args, response, idx, tool_results, outcome,
          store, hostlog, richLeft, kwargs, returned, raw_text, summary,
          tools, tools_text>>

(***************************************************************************)
(* Program constants (main.py:33-36)                                       *)
(***************************************************************************)
\* the five characters of the default prompt, "kai shi zhi xing" and a full stop
DEFAULT_USER_PROMPT == <<"kai", "shi", "zhi", "xing", ".">>
TOOL_CALL_PLACEHOLDER_PROMPT == <<" ">>
MAX_AGENT_ITERATIONS == 10
COMPLETION_SENTINEL ==
    <<"[", "A", "G", "E", "N", "T", "_", "D", "O", "N", "E", "]">>
\* the twelve characters of the limit text (main.py:278)
LIMIT_TEXT == <<"gong", "ju", "diao", "yong", "chao", "guo",
                "zui", "da", "ci", "shu", "xian", "zhi">>

(***************************************************************************)
(* Python string primitives                                                *)
(***************************************************************************)
Whitespace == {" ", "\n"}

RECURSIVE LStrip(_)
LStrip(s) ==
    IF s # <<>> /\ Head(s) \in Whitespace THEN LStrip(Tail(s)) ELSE s

RECURSIVE RStrip(_)
RStrip(s) ==
    IF s # <<>> /\ s[Len(s)] \in Whitespace
    THEN RStrip(SubSeq(s, 1, Len(s) - 1))
    ELSE s

\* str.strip()
Strip(s) == RStrip(LStrip(s))

\* the positions at which sep occurs in s
Occurrences(s, sep) ==
    {i \in 1..Len(s) : i + Len(sep) - 1 <= Len(s)
                       /\ SubSeq(s, i, i + Len(sep) - 1) = sep}

\* `sep in s`
Contains(s, sep) == Occurrences(s, sep) # {}

Min(S) == CHOOSE m \in S : \A n \in S : m <= n

\* s.split(sep, 1) when sep occurs in s: <<before, after>> of the first occurrence
SplitOnce(s, sep) ==
    LET i == Min(Occurrences(s, sep))
    IN  <<SubSeq(s, 1, i - 1), SubSeq(s, i + Len(sep), Len(s))>>

\* the first whitespace-delimited token of s (s starts with a non-space)
RECURSIVE Token(_)
Token(s) ==
    IF s = <<>> \/ Head(s) \in Whitespace THEN <<>>
    ELSE <<Head(s)>> \o Token(Tail(s))

\* s.split(None, maxsplit)
RECURSIVE SplitWs(_, _)
SplitWs(s, maxsplit) ==
    LET t == LStrip(s)
    IN  IF t = <<>> THEN <<>>
        ELSE IF maxsplit = 0 THEN <<t>>
        ELSE LET tok == Token(t)
             IN  <<tok>> \o SplitWs(SubSeq(t, Len(tok) + 1, Len(t)), maxsplit - 1)

(***************************************************************************)
(* Main._extract_completion_text (main.py:295-306)                         *)
(***************************************************************************)
ExtractCompletionText_NoFallback(raw) ==
    IF raw = <<>> THEN raw
    ELSE LET text == Strip(raw)
         IN  IF Contains(text, COMPLETION_SENTINEL)
             THEN Strip(SplitOnce(text, COMPLETION_SENTINEL)[2])
             ELSE text

\* variant: the sentinel is cut out of the text and the text before it is kept
ExtractCompletionText_KeepPrefix(raw) ==
    IF raw = <<>> THEN raw
    ELSE LET text == Strip(raw)
         IN  IF Contains(text, COMPLETION_SENTINEL)
             THEN LET parts == SplitOnce(text, COMPLETION_SENTINEL)
                      remainder == Strip(parts[1] \o parts[2])
                  IN  IF remainder # <<>> THEN remainder
                      ELSE COMPLETION_SENTINEL
             ELSE text

ExtractCompletionText(raw) ==
    IF raw = <<>> THEN raw
    ELSE LET text == Strip(raw)
         IN  IF Contains(text, COMPLETION_SENTINEL)
             THEN LET remainder == Strip(SplitOnce(text, COMPLETION_SENTINEL)[2])
                  IN  IF remainder # <<>> THEN remainder
                      ELSE COMPLETION_SENTINEL
             ELSE text

(***************************************************************************)
(* Python values that reach the tool handlers.  A value carries its type   *)
(* in field t: None, a str, an int, or a list of such values.              *)
(***************************************************************************)
None == [t |-> "none"]
Str(s) == [t |-> "str", v |-> s]
Int(n) == [t |-> "int", v |-> n]
List(items) == [t |-> "list", v |-> items]

\* kwargs.get(key): None when the caller did not supply the key
Get(kw, key) == IF key \in DOMAIN kw THEN kw[key] ELSE None

(***************************************************************************)
(* The host persona manager (spec.md section 6: get returns the persona or *)
(* not-found; update ignores unset fields and fails if the persona is      *)
(* absent).  A store maps a persona id to its record or to None.           *)
(***************************************************************************)
Lookup(st, pid) ==
    IF pid.t = "str" /\ pid.v \in DOMAIN st THEN st[pid.v] ELSE None

\* the record update_persona leaves in place: a None argument keeps the field
Updated(old, sp, bd, tl) ==
    [system_prompt |-> IF sp = None THEN old.system_prompt ELSE sp,
     begin_dialogs |-> IF bd = None THEN old.begin_dialogs ELSE bd,
     tools         |-> IF tl = None THEN old.tools ELSE tl]

\* persona_manager.get_persona(pid); fault "raise" is a failure of the host
HostGet(st, pid, fault) ==
    IF fault = "raise" THEN [raised |-> TRUE, value |-> None]
    ELSE [raised |-> FALSE, value |-> Lookup(st, pid)]

\* persona_manager.update_persona(pid, system_prompt=, begin_dialogs=, tools=)
HostUpdate(st, pid, sp, bd, tl, fault) ==
    IF fault = "raise" \/ Lookup(st, pid) = None
    THEN [raised |-> TRUE, value |-> None, store |-> st]
    ELSE LET new == Updated(st[pid.v], sp, bd, tl)
         IN  [raised |-> FALSE,
              value  |-> IF fault = "returns_none" THEN None ELSE new,
              store  |-> [st EXCEPT ![pid.v] = new]]

(***************************************************************************)
(* core/tools.py: the two tool handlers.  A handler yields the text it     *)
(* returns (json.dumps of a payload), the store it leaves and the host     *)
(* calls it made.                                                          *)
(***************************************************************************)
\* json.dumps(payload, ensure_ascii=False)
JsonDumps(payload) == [json |-> payload]

PersonaResult(pid, persona) ==
    [persona_id    |-> pid,
     system_prompt |-> persona.system_prompt,
     begin_dialogs |-> persona.begin_dialogs,
     tools         |-> persona.tools]

\* variant: an exception of the host's get_persona is not caught
GetPersonaDetail_NoCatch(kw, st, fault) ==
    LET persona_id == Get(kw, "persona_id")
        got == HostGet(st, persona_id, fault)
        call == [op |-> "get_persona", persona_id |-> persona_id]
    IN  [result |->
            IF got.raised
            THEN [raised |-> "host error"]
            ELSE IF got.value = None
            THEN JsonDumps([ok |-> FALSE, error |-> "persona not found",
                            persona_id |-> persona_id])
            ELSE JsonDumps([ok |-> TRUE,
                            persona |-> PersonaResult(persona_id, got.value)]),
         store |-> st,
         host  |-> <<call>>]

\* GetPersonaDetailTool._run_handler (tools.py:33-50)
GetPersonaDetail(kw, st, fault) ==
    LET persona_id == Get(kw, "persona_id")
        got == HostGet(st, persona_id, fault)
        call == [op |-> "get_persona", persona_id |-> persona_id]
    IN  [result |->
            IF got.raised
            THEN JsonDumps([ok |-> FALSE, error |-> "host error",
                            persona_id |-> persona_id])
            ELSE IF got.value = None
            THEN JsonDumps([ok |-> FALSE, error |-> "persona not found",
                            persona_id |-> persona_id])
            ELSE JsonDumps([ok |-> TRUE,
                            persona |-> PersonaResult(persona_id, got.value)]),
         store |-> st,
         host  |-> <<call>>]

\* tools.py:97: not a list, or a list with an item that is not a str
NotStringList(bd) ==
    bd.t # "list" \/ \E i \in 1..Len(bd.v) : bd.v[i].t # "str"

\* tools.py:96-105: the error text of a rejected begin_dialogs, or "" if accepted
BeginDialogsError_NoParity(bd) ==
    IF bd = None THEN ""
    ELSE IF NotStringList(bd) THEN "begin_dialogs must be a list of strings"
    ELSE ""

BeginDialogsError(bd) ==
    IF bd = None THEN ""
    ELSE IF NotStringList(bd) THEN "begin_dialogs must be a list of strings"
    ELSE IF Len(bd.v) % 2 # 0 THEN "begin_dialogs must have an even number of entries"
    ELSE ""

\* variant: update_persona is called before begin_dialogs is validated
UpdatePersonaDetails_WriteFirst(kw, st, fault) ==
    LET persona_id == Get(kw, "persona_id")
        sp == Get(kw, "system_prompt")
        begin_dialogs == Get(kw, "begin_dialogs")
        tl == Get(kw, "tools")
        error_msg == BeginDialogsError(begin_dialogs)
        \* fault "refetch_raises": update_persona returns None and the
        \* get_persona that follows raises
        upd == HostUpdate(st, persona_id, sp, begin_dialogs, tl,
                          IF fault = "refetch_raises" THEN "returns_none" ELSE fault)
        updcall == [op |-> "update_persona", persona_id |-> persona_id,
                    system_prompt |-> sp, begin_dialogs |-> begin_dialogs,
                    tools |-> tl]
        \* tools.py:120: persona = persona or await get_persona(persona_id)
        refetch == upd.value = None
        got == HostGet(upd.store, persona_id,
                       IF fault = "refetch_raises" THEN "raise" ELSE "none")
        persona == IF refetch THEN got.value ELSE upd.value
    IN  IF error_msg # ""
        THEN [result |-> JsonDumps([ok |-> FALSE, error |-> error_msg]),
              store |-> upd.store, host |-> <<updcall>>]
        ELSE IF upd.raised
        THEN [result |-> JsonDumps([ok |-> FALSE, error |-> "update failed"]),
              store |-> upd.store, host |-> <<updcall>>]
        ELSE [result |->
                 IF persona = None
                 THEN JsonDumps([ok |-> FALSE,
                                 error |-> "updated but could not re-read"])
                 ELSE JsonDumps([ok |-> TRUE,
                                 persona |-> PersonaResult(persona_id, persona)]),
              store |-> upd.store,
              host |-> IF refetch
                       THEN <<updcall, [op |-> "get_persona",
                                        persona_id |-> persona_id]>>
                       ELSE <<updcall>>]

\* UpdatePersonaDetailsTool._run_handler (tools.py:88-133)
UpdatePersonaDetails(kw, st, fault) ==
    LET persona_id == Get(kw, "persona_id")
        sp == Get(kw, "system_prompt")
        begin_dialogs == Get(kw, "begin_dialogs")
        tl == Get(kw, "tools")
        error_msg == BeginDialogsError(begin_dialogs)
        \* fault "refetch_raises": update_persona returns None and the
        \* get_persona that follows raises
        upd == HostUpdate(st, persona_id, sp, begin_dialogs, tl,
                          IF fault = "refetch_raises" THEN "returns_none" ELSE fault)
        updcall == [op |-> "update_persona", persona_id |-> persona_id,
                    system_prompt |-> sp, begin_dialogs |-> begin_dialogs,
                    tools |-> tl]
        \* tools.py:120: persona = persona or await get_persona(persona_id)
        refetch == upd.value = None
        got == HostGet(upd.store, persona_id,
                       IF fault = "refetch_raises" THEN "raise" ELSE "none")
        persona == IF refetch THEN got.value ELSE upd.value
    IN  IF error_msg # ""
        THEN [result |-> JsonDumps([ok |-> FALSE, error |-> error_msg]),
              store |-> st, host |-> <<>>]
        ELSE IF upd.raised
        THEN [result |-> JsonDumps([ok |-> FALSE, error |-> "update failed"]),
              store |-> upd.store, host |-> <<updcall>>]
        ELSE [result |->
                 IF persona = None
                 THEN JsonDumps([ok |-> FALSE,
                                 error |-> "updated but could not re-read"])
                 ELSE JsonDumps([ok |-> TRUE,
                                 persona |-> PersonaResult(persona_id, persona)]),
              store |-> upd.store,
              host |-> IF refetch
                       THEN <<updcall, [op |-> "get_persona",
                                        persona_id |-> persona_id]>>
                       ELSE <<updcall>>]

(***************************************************************************)
(* Provider responses (LLMResponse).  names, args and ids are the three    *)
(* parallel lists tools_call_name, tools_call_args and tools_call_ids; the *)
(* ids attribute may be missing.  chain is result_chain.chain[0].text, or  *)
(* not present when result_chain is None or empty.                         *)
(***************************************************************************)
\* a tools_call_args entry: a dict of keyword arguments, or something else
Mapping(kw) == [mapping |-> TRUE, kw |-> kw]
NotMapping == [mapping |-> FALSE, kw |-> [persona_id |-> None]]

NoChain == [present |-> FALSE, text |-> <<>>]
Chain(text) == [present |-> TRUE, text |-> text]

NoIds == [present |-> FALSE, v |-> <<>>]
Ids(v) == [present |-> TRUE, v |-> v]

\* an id as a provider assigns it to the call at position i (from 0)
ProviderId(i) == <<"call", "-", i>>

\* main.py:210: f"{name}:{i}"
SynthesizedId(name, i) == <<name, ":", i>>

\* main.py:207-211: getattr(response, 'tools_call_ids', [synthesized ids])
ToolCallIds(r) ==
    IF r.ids.present THEN r.ids.v
    ELSE [i \in 1..Len(r.names) |-> SynthesizedId(r.names[i], i - 1)]

Min3(a, b, c) == Min({a, b, c})

\* the number of triples zip(names, args, ids) yields (main.py:213-217)
ZipLen(r) == Min3(Len(r.names), Len(r.args), Len(ToolCallIds(r)))

\* main.py:201-204: the response carries tool calls
HasToolCalls(r) == r.names # <<>> /\ r.args # <<>>

(***************************************************************************)
(* The tool set of a command (main.py:129-133) and tool_set.get_tool       *)
(***************************************************************************)
ToolSetNames == {"get_persona_detail", "update_persona_details"}

GetTool(name) == IF name \in ToolSetNames THEN name ELSE "no tool"

\* tool.handler(**tool_args) for a tool of the tool set
RunHandler(tool, kw, st, fault) ==
    IF tool = "get_persona_detail" THEN GetPersonaDetail(kw, st, fault)
    ELSE UpdatePersonaDetails(kw, st, fault)

\* main.py:218-240: the tool-result entry of one dispatched call, with the
\* store and host calls the dispatch leaves
ToolResult(tool_id, content) ==
    [tool_call_id |-> tool_id, role |-> "tool", content |-> content]

DispatchOne_Abort(tool_name, tool_args, tool_id, st, fault) ==
    LET tool == GetTool(tool_name)
        ran == RunHandler(tool, tool_args.kw, st, fault)
    IN  IF tool # "no tool" /\ tool_args.mapping
        THEN [entry |-> <<ToolResult(tool_id, [str |-> ran.result])>>,
              store |-> ran.store, host |-> ran.host]
        ELSE [entry |-> <<>>, store |-> st, host |-> <<>>]

DispatchOne(tool_name, tool_args, tool_id, st, fault) ==
    LET tool == GetTool(tool_name)
        ran == RunHandler(tool, tool_args.kw, st, fault)
    IN  IF tool # "no tool"
        THEN IF tool_args.mapping
             THEN [entry |-> <<ToolResult(tool_id, [str |-> ran.result])>>,
                   store |-> ran.store, host |-> ran.host]
             \* handler(**tool_args) raises TypeError: caught at main.py:227
             ELSE [entry |-> <<ToolResult(tool_id,
                                 [failed |-> "tool execution failed"])>>,
                   store |-> st, host |-> <<>>]
        ELSE [entry |-> <<ToolResult(tool_id,
                            [failed |-> "tool not found", name |-> tool_name])>>,
              store |-> st, host |-> <<>>]

\* the four characters of the generic assistant content (main.py:242)
INVOKING_TOOL == <<"diao", "yong", "gong", "ju">>

\* main.py:242-246
AssistantContent(r) ==
    IF r.chain.present /\ r.chain.text # <<>> /\ Strip(r.chain.text) # <<>>
    THEN r.chain.text
    ELSE INVOKING_TOOL

\* main.py:257
Arguments(tool_args) ==
    IF tool_args.mapping THEN [json |-> tool_args.kw] ELSE [str |-> "not a dict"]

\* main.py:248-266
\* variant: the descriptors carry synthesized ids whatever the provider sent
AssistantEntry_SynthesizedIds(r) ==
    [role |-> "assistant",
     content |-> AssistantContent(r),
     tool_calls |->
        [i \in 1..ZipLen(r) |->
            [id |-> SynthesizedId(r.names[i], i - 1), type |-> "function",
             function |-> [name |-> r.names[i],
                           arguments |-> Arguments(r.args[i])]]]]

AssistantEntry(r) ==
    [role |-> "assistant",
     content |-> AssistantContent(r),
     tool_calls |->
        [i \in 1..ZipLen(r) |->
            [id |-> ToolCallIds(r)[i], type |-> "function",
             function |-> [name |-> r.names[i],
                           arguments |-> Arguments(r.args[i])]]]]

UserEntry(prompt) == [role |-> "user", content |-> prompt]

\* main.py:272-274
FinalText(r) ==
    IF r.chain.present THEN r.chain.text
    ELSE IF r.completion.present THEN r.completion.text
    ELSE <<>>

(***************************************************************************)
(* Main._parse_update_request (main.py:110-127)                            *)
(***************************************************************************)
ParseUpdateRequest_TwoParts(msg) ==
    LET raw_message == Strip(msg)
        parts == IF raw_message # <<>> THEN SplitWs(raw_message, 2) ELSE <<>>
    IN  IF Len(parts) < 2
        THEN [ok |-> FALSE, error |-> "insufficient arguments"]
        ELSE [ok |-> TRUE, persona_id |-> Strip(parts[2]),
              update_requirement |-> <<>>]

ParseUpdateRequest(msg) ==
    LET raw_message == Strip(msg)
        parts == IF raw_message # <<>> THEN SplitWs(raw_message, 2) ELSE <<>>
    IN  IF Len(parts) < 3
        THEN [ok |-> FALSE, error |-> "insufficient arguments"]
        ELSE IF Strip(parts[2]) = <<>>
        THEN [ok |-> FALSE, error |-> "persona id is empty"]
        ELSE IF Strip(parts[3]) = <<>>
        THEN [ok |-> FALSE, error |-> "update requirement is empty"]
        ELSE [ok |-> TRUE, persona_id |-> Strip(parts[2]),
              update_requirement |-> Strip(parts[3])]

(***************************************************************************)
(* Main._resolve_provider (main.py:135-160).  by_id and using are what the *)
(* host's get_provider_by_id and get_using_provider do when called: return *)
(* a provider, return None ("none"), or raise ("raise").                   *)
(***************************************************************************)
\* variant: a configured id that is not found is not replaced by the active
\* provider
ResolveProvider_NoFallback(cfg, by_id, using) ==
    LET provider_id == Strip(cfg)
        lookups ==
            IF provider_id # <<>>
            THEN <<[op |-> "get_provider_by_id", result |-> by_id]>>
            ELSE <<[op |-> "get_using_provider", result |-> using]>>
        provider_instance == lookups[Len(lookups)].result
    IN  IF provider_instance \in {"raise", "none"}
        THEN [ok |-> FALSE, error |-> "no valid provider", lookups |-> lookups,
              provider |-> "none"]
        ELSE [ok |-> TRUE, error |-> "", lookups |-> lookups,
              provider |-> provider_instance]

ResolveProvider(cfg, by_id, using) ==
    LET provider_id == Strip(cfg)
        \* the host lookups made, in order
        lookups ==
            IF provider_id # <<>>
            THEN IF by_id = "none"
                 THEN <<[op |-> "get_provider_by_id", result |-> by_id],
                        [op |-> "get_using_provider", result |-> using]>>
                 ELSE <<[op |-> "get_provider_by_id", result |-> by_id]>>
            ELSE <<[op |-> "get_using_provider", result |-> using]>>
        provider_instance == lookups[Len(lookups)].result
    IN  IF provider_instance = "raise"
        THEN [ok |-> FALSE, error |-> "lookup raised", lookups |-> lookups,
              provider |-> "none"]
        ELSE IF provider_instance = "none"
        THEN [ok |-> FALSE, error |-> "no valid provider", lookups |-> lookups,
              provider |-> "none"]
        ELSE [ok |-> TRUE, error |-> "", lookups |-> lookups,
              provider |-> provider_instance]

\* main.py:162-167
BuildSystemPrompt(persona_id, update_requirement) ==
    [persona_id |-> persona_id, update_requirement |-> update_requirement,
     completion_sentinel |-> COMPLETION_SENTINEL]

(***************************************************************************)
(* Messages the command handler yields (event.plain_result)                *)
(***************************************************************************)
\* main.py:73
ValidationMessage(error) == [kind |-> "validation", body |-> <<error>>]
\* main.py:85
ProviderErrorMessage(error) == [kind |-> "provider error", body |-> <<error>>]
\* main.py:92
AnalyzingMessage == [kind |-> "analyzing", body |-> <<>>]
\* main.py:102
SuccessMessage(final_text) == [kind |-> "success", body |-> final_text]
\* main.py:105, 108
FailureMessage(error) == [kind |-> "failure", body |-> <<error>>]

(***************************************************************************)
(* Inputs                                                                  *)
(***************************************************************************)
\* the tool calls of one command that the provider may place in responses
\* other than the plain one (a single get_persona_detail call carrying the
\* provider's id); once the provider has given the plain response it stays
\* with it
MaxRichCalls == 2

\* command texts: "u" is the command word, "p" a persona id, "r" a requirement
CommandTexts ==
    { <<>>, <<" ">>, <<"u">>, <<"u", " ", "p">>, <<" ", "u", "\n", "p", " ">>,
      <<" ", "u", " ", " ", "p", "\n", "r", " ", "r", " ">> }

Configs == { <<>>, <<" ">>, <<"g">> }
LookupOutcomes == {"none", "raise"}

InitialStore ==
    [bert |-> [system_prompt |-> Str("You are Bert."),
               begin_dialogs |-> List(<<Str("hi"), Str("hello")>>),
               tools         |-> None]]

\* the tool calls a provider places in the main specification
KwGet == [persona_id |-> Str("bert")]
KwUpdate == [persona_id |-> Str("bert"), system_prompt |-> Str("Be formal.")]
KwOdd == [persona_id |-> Str("bert"), begin_dialogs |-> List(<<Str("hi")>>)]
KwGhost == [persona_id |-> Str("ghost"), tools |-> List(<<>>)]

PlainCall == [name |-> "get_persona_detail", args |-> Mapping(KwGet)]
UnknownCall == [name |-> "search_web", args |-> Mapping(KwGet)]

CallKinds ==
    { PlainCall, UnknownCall,
      [name |-> "get_persona_detail", args |-> NotMapping],
      [name |-> "update_persona_details", args |-> Mapping(KwUpdate)],
      [name |-> "update_persona_details", args |-> Mapping(KwOdd)],
      [name |-> "update_persona_details", args |-> Mapping(KwGhost)] }

\* how a response carries ids: none at all, one per call, or one too few
IdsOf(n, mode) ==
    IF mode = "absent" THEN NoIds
    ELSE IF mode = "full" THEN Ids([i \in 1..n |-> ProviderId(i - 1)])
    ELSE Ids([i \in 1..(n - 1) |-> ProviderId(i - 1)])

ToolResponse(cs, mode, chain) ==
    [names |-> [i \in 1..Len(cs) |-> cs[i].name],
     args  |-> [i \in 1..Len(cs) |-> cs[i].args],
     ids   |-> IdsOf(Len(cs), mode),
     chain |-> chain,
     completion |-> [present |-> TRUE, text |-> <<>>]]

PlainResponse == ToolResponse(<<PlainCall>>, "full", NoChain)

\* the tool-calling responses with n calls: every kind of call with the
\* provider's ids; known and unknown tools without ids or with one id too few;
\* the plain call with a leading text chunk
RichResponses(n) ==
    ( { ToolResponse(cs, "full", NoChain) : cs \in [1..n -> CallKinds] }
      \cup { ToolResponse(cs, mode, NoChain) :
                cs \in [1..n -> {PlainCall, UnknownCall}],
                mode \in {"absent", "short"} }
      \cup { ToolResponse([i \in 1..n |-> PlainCall], "full", chain) :
                chain \in {Chain(<<" ">>), Chain(<<"o", "k">>)} } )
    \ {PlainResponse}

FinalResponses ==
    { [names |-> <<>>, args |-> <<>>, ids |-> NoIds, chain |-> NoChain,
       completion |-> [present |-> FALSE, text |-> <<>>]],
      [names |-> <<>>, args |-> <<>>, ids |-> NoIds, chain |-> NoChain,
       completion |-> [present |-> TRUE,
                       text |-> <<"h", "m">> \o COMPLETION_SENTINEL
                                \o <<" ", "o", "k">>]],
      [names |-> <<>>, args |-> <<>>, ids |-> NoIds,
       chain |-> Chain(<<" ", "o", "k", "\n">>),
       completion |-> [present |-> TRUE, text |-> <<"r", "a", "w">>]] }

\* the responses the provider may give when `left` rich calls remain
Responses(left) ==
    {PlainResponse} \cup FinalResponses
    \cup UNION { RichResponses(n) : n \in 1..left }

\* the rich calls left after response r
RichLeftAfter(left, r) ==
    IF r = PlainResponse THEN 0
    ELSE IF HasToolCalls(r) THEN left - Len(r.names)
    ELSE left

NoResponse == PlainResponse
NoChatArgs == [prompt |-> <<>>, contexts |-> <<>>]
NoOutcome == [kind |-> "running", via |-> "none", value |-> <<>>]
NoKwargs == KwGet
NoReturn ==
    [tool |-> "none", result |-> JsonDumps([ok |-> FALSE]), calls |-> <<>>,
     fault |-> "none"]
Unset == <<"unset">>

(***************************************************************************)
(* The persona-update command: Main.persona_self_update (main.py:64-108) and the   *)
(* loop of Main._run_agent_conversation (main.py:172-283)                  *)
(***************************************************************************)
IdleTools == kwargs = NoKwargs /\ returned = NoReturn
IdleText == raw_text = <<>> /\ summary = Unset
IdleFormat == tools = None /\ tools_text = Unset

Init ==
    /\ pc = "start"
    /\ config \in Configs
    /\ message_str \in CommandTexts
    /\ system_prompt = BuildSystemPrompt(<<>>, <<>>)
    /\ provider = "none"
    /\ out = <<>>
    /\ messages = <<>>
    /\ current_prompt = <<>>
    /\ calls = 0
    /\ chat_args = NoChatArgs
    /\ response = NoResponse
    /\ idx = 0
    /\ tool_results = <<>>
    /\ outcome = NoOutcome
    /\ store = InitialStore
    /\ hostlog = <<>>
    /\ richLeft = MaxRichCalls
    /\ IdleTools
    /\ IdleText
    /\ IdleFormat

loopVars == <<messages, current_prompt, calls, chat_args, response, idx,
              tool_results, outcome, richLeft>>
sideVars == <<kwargs, returned, raw_text, summary, tools, tools_text>>

\* main.py:70-74: parsing fails, one validation message, return
CmdRejected ==
    /\ pc = "start"
    /\ ~ParseUpdateRequest(message_str).ok
    /\ out' = Append(out, ValidationMessage(ParseUpdateRequest(message_str).error))
    /\ pc' = "done"
    /\ UNCHANGED <<config, message_str, system_prompt, provider, store, hostlog,
                   loopVars, sideVars>>

\* main.py:82-86: no provider can be resolved, one error message, return
CmdNoProvider ==
    /\ pc = "start"
    /\ ParseUpdateRequest(message_str).ok
    /\ \E by_id \in LookupOutcomes \cup {"P1"}, using \in LookupOutcomes \cup {"P0"} :
         LET res == ResolveProvider(config, by_id, using)
         IN  /\ ~res.ok
             /\ hostlog' = hostlog \o res.lookups
             /\ out' = Append(out, ProviderErrorMessage(res.error))
    /\ pc' = "done"
    /\ UNCHANGED <<config, message_str, system_prompt, provider, store,
                   loopVars, sideVars>>

\* main.py:76-80: the request parsed; _reset_persona_cache and _build_tool_set
\* run outside any try block, so when the construction of a tool
\* (FunctionTool.__init__ of the host, tools.py:16-31 and 56-86) raises, the
\* exception leaves the handler and nothing is yielded
BuildToolSetRaises ==
    /\ pc = "start"
    /\ ParseUpdateRequest(message_str).ok
    /\ pc' = "escaped"
    /\ UNCHANGED <<config, message_str, system_prompt, provider, out, store,
                   hostlog, loopVars, sideVars>>

\* variant: the loop is entered without the acknowledgment
CmdAccepted_NoAck ==
    /\ pc = "start"
    /\ ParseUpdateRequest(message_str).ok
    /\ \E by_id \in LookupOutcomes \cup {"P1"}, using \in LookupOutcomes \cup {"P0"} :
         LET res == ResolveProvider(config, by_id, using)
         IN  /\ res.ok
             /\ hostlog' = hostlog \o res.lookups
             /\ provider' = res.provider
    /\ system_prompt' = BuildSystemPrompt(ParseUpdateRequest(message_str).persona_id,
                          ParseUpdateRequest(message_str).update_requirement)
    /\ out' = out
    /\ messages' = <<>>
    /\ current_prompt' = DEFAULT_USER_PROMPT
    /\ pc' = "call"
    /\ UNCHANGED <<config, message_str, store, calls, chat_args, response, idx,
                   tool_results, outcome, richLeft, sideVars>>

\* main.py:71-92 and 182-185: the command is accepted, the acknowledgment is
\* yielded and the loop is entered
CmdAccepted ==
    /\ pc = "start"
    /\ ParseUpdateRequest(message_str).ok
    /\ \E by_id \in LookupOutcomes \cup {"P1"}, using \in LookupOutcomes \cup {"P0"} :
         LET res == ResolveProvider(config, by_id, using)
         IN  /\ res.ok
             /\ hostlog' = hostlog \o res.lookups
             /\ provider' = res.provider
    /\ system_prompt' = BuildSystemPrompt(ParseUpdateRequest(message_str).persona_id,
                          ParseUpdateRequest(message_str).update_requirement)
    /\ out' = Append(out, AnalyzingMessage)
    /\ messages' = <<>>
    /\ current_prompt' = DEFAULT_USER_PROMPT
    /\ pc' = "call"
    /\ UNCHANGED <<config, message_str, store, calls, chat_args, response, idx,
                   tool_results, outcome, richLeft, sideVars>>

\* variant: the prompt's user entry is appended before the call
ChatArgs_AfterAppend ==
    [prompt |-> current_prompt,
     contexts |-> Append(messages, [role |-> "user", content |-> current_prompt])]

\* main.py:189-197: the arguments of provider.text_chat
ChatArgs == [prompt |-> current_prompt, contexts |-> messages]

\* a provider.text_chat call and how the provider answered it
TextChat(reply) == [op |-> "text_chat", reply |-> reply]

\* ProviderRaises with the exception swallowed: the loop goes on
ProviderRaises_Swallowed ==
    /\ pc = "call"
    /\ calls < MAX_AGENT_ITERATIONS
    /\ calls' = calls + 1
    /\ chat_args' = ChatArgs
    /\ hostlog' = Append(hostlog, TextChat("raise"))
    /\ UNCHANGED <<pc, config, message_str, system_prompt, provider, store, out,
                   outcome, messages, current_prompt, response, idx,
                   tool_results, richLeft, sideVars>>

\* main.py:189-197 raises; 280-281 and 103-105: one failure message
ProviderRaises ==
    /\ pc = "call"
    /\ calls' = calls + 1
    /\ chat_args' = ChatArgs
    /\ hostlog' = Append(hostlog, TextChat("raise"))
    /\ outcome' = [kind |-> "AgentExecutionError", via |-> "raise",
                   value |-> <<"provider error">>]
    /\ out' = Append(out, FailureMessage("provider error"))
    /\ pc' = "done"
    /\ UNCHANGED <<config, message_str, system_prompt, provider, store,
                   messages, current_prompt, response, idx, tool_results,
                   richLeft, sideVars>>

\* main.py:189-204: a response with tool calls; the dispatch loop is entered
ProviderReturnsTools ==
    /\ pc = "call"
    /\ \E r \in Responses(richLeft) :
         /\ HasToolCalls(r)
         /\ response' = r
         /\ richLeft' = RichLeftAfter(richLeft, r)
    /\ calls' = calls + 1
    /\ chat_args' = ChatArgs
    /\ messages' = Append(messages, UserEntry(current_prompt))
    /\ tool_results' = <<>>
    /\ idx' = 1
    /\ hostlog' = Append(hostlog, TextChat("tools"))
    /\ pc' = "dispatch"
    /\ UNCHANGED <<config, message_str, system_prompt, provider, out, store,
                   current_prompt, outcome, sideVars>>

\* main.py:189-199, 272-276, 283 and 102: a response without tool calls ends
\* the loop and the success message is yielded
ProviderReturnsFinal ==
    /\ pc = "call"
    /\ \E r \in Responses(richLeft) :
         /\ ~HasToolCalls(r)
         /\ outcome' = [kind |-> "returned", via |-> "final",
                        value |-> ExtractCompletionText(FinalText(r))]
         /\ out' = Append(out, SuccessMessage(ExtractCompletionText(FinalText(r))))
         /\ response' = r
    /\ calls' = calls + 1
    /\ chat_args' = ChatArgs
    /\ messages' = Append(messages, UserEntry(current_prompt))
    /\ hostlog' = Append(hostlog, TextChat("final"))
    /\ pc' = "done"
    /\ UNCHANGED <<config, message_str, system_prompt, provider, store,
                   current_prompt, idx, tool_results, richLeft, sideVars>>

\* main.py:213-240: one iteration of the dispatch loop.  Within a command the
\* host persona manager fails only for a persona it does not hold; its other
\* failures are exercised on the handlers directly (SpecTools)
DispatchTool ==
    /\ pc = "dispatch"
    /\ idx <= ZipLen(response)
    /\ LET d == DispatchOne(response.names[idx], response.args[idx],
                            ToolCallIds(response)[idx], store, "none")
       IN  /\ tool_results' = tool_results \o d.entry
           /\ store' = d.store
           /\ hostlog' = hostlog \o d.host
    /\ idx' = idx + 1
    /\ UNCHANGED <<pc, config, message_str, system_prompt, provider, out,
                   messages, current_prompt, calls, chat_args, response,
                   outcome, richLeft, sideVars>>

\* FinishTurn without messages.extend(tool_results)
FinishTurn_NoResults ==
    /\ pc = "dispatch"
    /\ idx > ZipLen(response)
    /\ calls < MAX_AGENT_ITERATIONS
    /\ messages' = messages \o <<AssistantEntry(response)>>
    /\ current_prompt' = TOOL_CALL_PLACEHOLDER_PROMPT
    /\ pc' = "call"
    /\ UNCHANGED <<config, message_str, system_prompt, provider, out, store,
                   hostlog, calls, chat_args, response, idx, tool_results,
                   outcome, richLeft, sideVars>>

\* FinishTurn without current_prompt = TOOL_CALL_PLACEHOLDER_PROMPT
FinishTurn_KeepPrompt ==
    /\ pc = "dispatch"
    /\ idx > ZipLen(response)
    /\ calls < MAX_AGENT_ITERATIONS
    /\ messages' = (messages \o <<AssistantEntry(response)>>) \o tool_results
    /\ pc' = "call"
    /\ UNCHANGED <<config, message_str, system_prompt, provider, out, store,
                   hostlog, calls, chat_args, response, idx, tool_results,
                   outcome, richLeft, sideVars, current_prompt>>

\* main.py:242-270: the turn's entries are appended and the loop continues
FinishTurn ==
    /\ pc = "dispatch"
    /\ idx > ZipLen(response)
    /\ calls < MAX_AGENT_ITERATIONS
    /\ messages' = (messages \o <<AssistantEntry(response)>>) \o tool_results
    /\ current_prompt' = TOOL_CALL_PLACEHOLDER_PROMPT
    /\ pc' = "call"
    /\ UNCHANGED <<config, message_str, system_prompt, provider, out, store,
                   hostlog, calls, chat_args, response, idx, tool_results,
                   outcome, richLeft, sideVars>>

\* FinishLastTurn with the loop bound off by one: the loop goes on
FinishLastTurn_OneMore ==
    /\ pc = "dispatch"
    /\ idx > ZipLen(response)
    /\ calls >= MAX_AGENT_ITERATIONS
    /\ messages' = (messages \o <<AssistantEntry(response)>>) \o tool_results
    /\ current_prompt' = TOOL_CALL_PLACEHOLDER_PROMPT
    /\ pc' = IF calls > MAX_AGENT_ITERATIONS THEN "done" ELSE "call"
    /\ outcome' = IF calls > MAX_AGENT_ITERATIONS
                  THEN [kind |-> "returned", via |-> "limit",
                        value |-> ExtractCompletionText(LIMIT_TEXT)]
                  ELSE outcome
    /\ out' = IF calls > MAX_AGENT_ITERATIONS
              THEN Append(out, SuccessMessage(ExtractCompletionText(LIMIT_TEXT)))
              ELSE out
    /\ UNCHANGED <<config, message_str, system_prompt, provider, store, hostlog,
                   calls, chat_args, response, idx, tool_results, richLeft,
                   sideVars>>

\* main.py:242-270 in the last iteration, then the for-else (277-279), 283
\* and 102: the limit text is returned and yielded as a success message
FinishLastTurn ==
    /\ pc = "dispatch"
    /\ idx > ZipLen(response)
    /\ calls >= MAX_AGENT_ITERATIONS
    /\ messages' = (messages \o <<AssistantEntry(response)>>) \o tool_results
    /\ current_prompt' = TOOL_CALL_PLACEHOLDER_PROMPT
    /\ outcome' = [kind |-> "returned", via |-> "limit",
                   value |-> ExtractCompletionText(LIMIT_TEXT)]
    /\ out' = Append(out, SuccessMessage(ExtractCompletionText(LIMIT_TEXT)))
    /\ pc' = "done"
    /\ UNCHANGED <<config, message_str, system_prompt, provider, store, hostlog,
                   calls, chat_args, response, idx, tool_results, richLeft,
                   sideVars>>

Next ==
    \/ CmdRejected
    \/ BuildToolSetRaises
    \/ CmdNoProvider
    \/ CmdAccepted
    \/ ProviderRaises
    \/ ProviderReturnsTools
    \/ ProviderReturnsFinal
    \/ DispatchTool
    \/ FinishTurn
    \/ FinishLastTurn

Spec == Init /\ [][Next]_vars

(***************************************************************************)
(* The tool handlers called directly, on every argument combination        *)
(***************************************************************************)
\* longest begin_dialogs list a caller supplies
MaxDialogs == 2

Absent == [t |-> "absent"]

RECURSIVE ListsUpTo(_, _)
ListsUpTo(items, n) ==
    IF n = 0 THEN {<<>>}
    ELSE LET shorter == ListsUpTo(items, n - 1)
         IN  shorter \cup {Append(l, x) : l \in shorter, x \in items}

PersonaIdArgs == {Absent, Str("bert"), Str("ghost")}
SystemPromptArgs == {Absent, None, Str(""), Str("Be formal.")}
BeginDialogsArgs ==
    {Absent, None, Str("hi")}
    \cup {List(l) : l \in ListsUpTo({Str("hi"), Int(1)}, MaxDialogs)}
ToolsArgs == {Absent, None, List(<<>>), List(<<Str("web")>>)}

\* the keyword arguments of a call: the keys the caller supplied
Kwargs(pid, sp, bd, tl) ==
    LET all == [persona_id |-> pid, system_prompt |-> sp,
                begin_dialogs |-> bd, tools |-> tl]
    IN  [k \in {key \in DOMAIN all : all[key] # Absent} |-> all[k]]

ToolKwargs ==
    { Kwargs(pid, sp, bd, tl) : pid \in PersonaIdArgs, sp \in SystemPromptArgs,
                                bd \in BeginDialogsArgs, tl \in ToolsArgs }

ToolStores ==
    { [bert |-> [system_prompt |-> Str("You are Bert."),
                 begin_dialogs |-> List(<<Str("hi"), Str("hello")>>),
                 tools         |-> tl]] : tl \in {None, List(<<Str("web")>>)} }

InitTools ==
    /\ pc = "tool_input"
    /\ kwargs \in ToolKwargs
    /\ store \in ToolStores
    /\ returned = NoReturn
    /\ hostlog = <<>>
    /\ config = <<>>
    /\ message_str = <<>>
    /\ system_prompt = BuildSystemPrompt(<<>>, <<>>)
    /\ provider = "none"
    /\ out = <<>>
    /\ messages = <<>>
    /\ current_prompt = <<>>
    /\ calls = 0
    /\ chat_args = NoChatArgs
    /\ response = NoResponse
    /\ idx = 0
    /\ tool_results = <<>>
    /\ outcome = NoOutcome
    /\ richLeft = 0
    /\ IdleText
    /\ IdleFormat

cmdVars == <<config, message_str, system_prompt, provider, out>>

\* get_persona_detail's handler is called with kwargs
InvokeGet ==
    /\ pc = "tool_input"
    /\ \E fault \in {"none", "raise"} :
         LET ran == GetPersonaDetail(kwargs, store, fault)
         IN  /\ returned' = [tool |-> "get_persona_detail",
                             result |-> ran.result, calls |-> ran.host,
                             fault |-> fault]
             /\ store' = ran.store
             /\ hostlog' = hostlog \o ran.host
    /\ pc' = "tool_done"
    /\ UNCHANGED <<kwargs, raw_text, summary, tools, tools_text, cmdVars, loopVars>>

\* update_persona_details' handler is called with kwargs
InvokeUpdate ==
    /\ pc = "tool_input"
    /\ \E fault \in {"none", "raise", "returns_none", "refetch_raises"} :
         LET ran == UpdatePersonaDetails(kwargs, store, fault)
         IN  /\ returned' = [tool |-> "update_persona_details",
                             result |-> ran.result, calls |-> ran.host,
                             fault |-> fault]
             /\ store' = ran.store
             /\ hostlog' = hostlog \o ran.host
    /\ pc' = "tool_done"
    /\ UNCHANGED <<kwargs, raw_text, summary, tools, tools_text, cmdVars, loopVars>>

NextTools == InvokeGet \/ InvokeUpdate

SpecTools == InitTools /\ [][NextTools]_vars

(***************************************************************************)
(* _extract_completion_text applied to every text built from a few pieces  *)
(***************************************************************************)
\* pieces a text is made of
MaxPieces == 3

TextPieces ==
    { <<" ">>, <<"\n">>, <<"a">>, <<"[", "A">>, COMPLETION_SENTINEL }

RECURSIVE Texts(_)
Texts(n) ==
    IF n = 0 THEN {<<>>}
    ELSE LET shorter == Texts(n - 1)
         IN  shorter \cup {t \o piece : t \in shorter, piece \in TextPieces}

InitText ==
    /\ pc = "text_input"
    /\ raw_text \in Texts(MaxPieces)
    /\ summary = Unset
    /\ IdleTools
    /\ store = InitialStore
    /\ hostlog = <<>>
    /\ config = <<>>
    /\ message_str = <<>>
    /\ system_prompt = BuildSystemPrompt(<<>>, <<>>)
    /\ provider = "none"
    /\ out = <<>>
    /\ messages = <<>>
    /\ current_prompt = <<>>
    /\ calls = 0
    /\ chat_args = NoChatArgs
    /\ response = NoResponse
    /\ idx = 0
    /\ tool_results = <<>>
    /\ outcome = NoOutcome
    /\ richLeft = 0
    /\ IdleFormat

\* _extract_completion_text(raw_text)
ExtractStep ==
    /\ pc = "text_input"
    /\ summary' = ExtractCompletionText(raw_text)
    /\ pc' = "text_done"
    /\ UNCHANGED <<raw_text, kwargs, returned, tools, tools_text, store, hostlog,
                   cmdVars, loopVars>>

NextText == ExtractStep

SpecText == InitText /\ [][NextText]_vars

(***************************************************************************)
(* _format_tools (core/textbuild.py:13-24), called with the tools value of *)
(* a persona record.  A tool name is a Python string, here the sequence of *)
(* its characters.                                                         *)
(***************************************************************************)
Tuple(items) == [t |-> "tuple", v |-> items]

\* the four characters of the 'all tools by default' marker (textbuild.py:16)
DEFAULT_ALL_MARKER == <<"mo", "ren", "quan", "bu">>
\* the one character of the 'none' marker (textbuild.py:19)
NONE_MARKER == <<"wu">>

\* str(value): a string is its own text, any other value its representation
PyStr(value) == IF value.t = "str" THEN value.v ELSE <<"repr", value>>

\* sep.join(items), for items that are all strings
RECURSIVE Join(_, _)
Join(sep, items) ==
    IF Len(items) = 1 THEN items[1].v
    ELSE items[1].v \o sep \o Join(sep, Tail(items))

\* variant: `if not tools` in place of `if tools is None`
FormatTools_EmptyAsDefault(value) ==
    IF value = None \/ (value.t \in {"list", "tuple"} /\ Len(value.v) = 0)
    THEN DEFAULT_ALL_MARKER
    ELSE IF value.t \in {"list", "tuple"}
    THEN IF \A i \in 1..Len(value.v) : value.v[i].t = "str"
         THEN Join(<<",", " ">>, value.v)
         ELSE PyStr(value)
    ELSE PyStr(value)

FormatTools(value) ==
    IF value = None THEN DEFAULT_ALL_MARKER
    ELSE IF value.t \in {"list", "tuple"}
    THEN IF Len(value.v) = 0 THEN NONE_MARKER
         \* str.join raises TypeError on an item that is not a str
         ELSE IF \A i \in 1..Len(value.v) : value.v[i].t = "str"
         THEN Join(<<",", " ">>, value.v)
         ELSE PyStr(value)
    ELSE PyStr(value)

\* entries a tools list is made of
MaxTools == 3

ToolNames == {<<"a">>, <<"b", "c">>}
ToolItems == {Str(name) : name \in ToolNames} \cup {Int(1)}
ToolsValues ==
    {None, Str(<<"a">>)}
      \cup {List(l) : l \in ListsUpTo(ToolItems, MaxTools)}
      \cup {Tuple(l) : l \in ListsUpTo(ToolItems, MaxTools)}

InitFormat ==
    /\ pc = "format_input"
    /\ tools \in ToolsValues
    /\ tools_text = Unset
    /\ IdleTools
    /\ IdleText
    /\ store = InitialStore
    /\ hostlog = <<>>
    /\ config = <<>>
    /\ message_str = <<>>
    /\ system_prompt = BuildSystemPrompt(<<>>, <<>>)
    /\ provider = "none"
    /\ out = <<>>
    /\ messages = <<>>
    /\ current_prompt = <<>>
    /\ calls = 0
    /\ chat_args = NoChatArgs
    /\ response = NoResponse
    /\ idx = 0
    /\ tool_results = <<>>
    /\ outcome = NoOutcome
    /\ richLeft = 0

\* _format_tools(tools)
FormatStep ==
    /\ pc = "format_input"
    /\ tools_text' = FormatTools(tools)
    /\ pc' = "format_done"
    /\ UNCHANGED <<tools, kwargs, returned, raw_text, summary, store, hostlog,
                   cmdVars, loopVars>>

NextFormat == FormatStep

SpecFormat == InitFormat /\ [][NextFormat]_vars

(***************************************************************************)
(* Properties                                                              *)
(***************************************************************************)
IsTextChat(e) == e.op = "text_chat"
IsUpdateCall(e) == e.op = "update_persona"

\* how the provider answered the text_chat calls of the command, in order
Replies == SelectSeq(hostlog, IsTextChat)

CountRole(msgs, role) == Cardinality({i \in 1..Len(msgs) : msgs[i].role = role})

\* every assistant entry follows a user entry and is followed by as many tool
\* entries as it has tool calls and then by a user entry; a tool entry follows
\* an assistant or a tool entry; the transcript starts with a user entry
InBlocks(msgs) ==
    \A i \in 1..Len(msgs) :
        /\ i = 1 => msgs[i].role = "user"
        /\ msgs[i].role = "user" /\ i < Len(msgs) => msgs[i + 1].role = "assistant"
        /\ msgs[i].role = "tool" => i > 1 /\ msgs[i - 1].role \in {"assistant", "tool"}
        /\ msgs[i].role = "assistant" =>
             LET n == Len(msgs[i].tool_calls)
             IN  /\ i > 1 /\ msgs[i - 1].role = "user"
                 /\ i + n + 1 <= Len(msgs)
                 /\ \A j \in 1..n : msgs[i + j].role = "tool"
                 /\ msgs[i + n + 1].role = "user"

\* the loop ended on a response without tool calls after N provider calls, of
\* which the first N-1 carried tool calls
EndedAtTurn(N) ==
    /\ pc = "done"
    /\ outcome.via = "final"
    /\ Len(Replies) = N
    /\ \A i \in 1..(N - 1) : Replies[i].reply = "tools"
    /\ Replies[N].reply = "final"

\* C1 as stated: when turns 1..N-1 carry tool calls and turn N none, the loop
\* makes exactly N provider calls and the transcript then holds N-1 user
\* entries and N-1 assistant entries with their tool results, and nothing else
C1_AsStated ==
    \A N \in 1..MAX_AGENT_ITERATIONS :
        EndedAtTurn(N) =>
            /\ calls = N
            /\ CountRole(messages, "user") = N - 1
            /\ CountRole(messages, "assistant") = N - 1

\* C1 amended: when turns 1..N-1 carry tool calls and turn N none, the loop
\* makes exactly N provider calls and stops; the transcript then holds one
\* user entry per provider call (N of them, the last one for turn N) and, for
\* each tool-calling turn, one assistant entry followed by its tool-result
\* entries (N-1 of them), in turn order, and nothing else
C1_TranscriptAtTermination ==
    /\ outcome.via = "final" => \E N \in 1..MAX_AGENT_ITERATIONS : EndedAtTurn(N)
    /\ \A N \in 1..MAX_AGENT_ITERATIONS :
        EndedAtTurn(N) =>
            /\ calls = N
            /\ CountRole(messages, "user") = N
            /\ CountRole(messages, "assistant") = N - 1
            /\ messages[Len(messages)].role = "user"
            /\ InBlocks(messages)

C1_Witness ==
    /\ EndedAtTurn(3)
    /\ CountRole(messages, "tool") = 3

\* C2: the loop never makes more than MAX_AGENT_ITERATIONS provider calls, and
\* when all MAX_AGENT_ITERATIONS responses carried tool calls it ends by
\* returning the limit text, yielded as a success message, not by an exception
AllToolReplies ==
    /\ Len(Replies) = MAX_AGENT_ITERATIONS
    /\ \A i \in 1..Len(Replies) : Replies[i].reply = "tools"

C2_LimitReached ==
    /\ calls <= MAX_AGENT_ITERATIONS
    /\ Len(Replies) = calls
    /\ pc = "call" => calls < MAX_AGENT_ITERATIONS
    /\ AllToolReplies => pc \in {"dispatch", "done"}
    /\ AllToolReplies /\ pc = "done" =>
         /\ outcome = [kind |-> "returned", via |-> "limit", value |-> LIMIT_TEXT]
         /\ out = <<AnalyzingMessage, SuccessMessage(LIMIT_TEXT)>>
    /\ outcome.via = "limit" => AllToolReplies

C2_Witness ==
    /\ pc = "done"
    /\ AllToolReplies
    /\ calls = MAX_AGENT_ITERATIONS
    /\ outcome.value = LIMIT_TEXT

\* C3 as stated: the host persona manager's update is invoked at most once
\* during one execution of the command
C3_AtMostOneUpdate ==
    Cardinality({i \in 1..Len(hostlog) : IsUpdateCall(hostlog[i])}) <= 1

\* the id the i-th requested call of response r is to be answered under: the
\* provider's id, or name:index where the provider gave none
ExpectedId(r, i) ==
    IF r.ids.present /\ i <= Len(r.ids.v) THEN r.ids.v[i]
    ELSE SynthesizedId(r.names[i], i - 1)

\* C6 as stated: the calls of a response are dispatched one at a time in the
\* provider's order, and every requested call yields exactly one tool-result
\* entry under its id; none is dropped or reordered
C6_EveryCallAnswered ==
    /\ pc = "dispatch" =>
         /\ Len(tool_results) = idx - 1
         /\ \A i \in 1..Len(tool_results) :
              tool_results[i].tool_call_id = ExpectedId(response, i)
    /\ pc = "call" /\ calls > 0 =>
         /\ Len(tool_results) = Len(response.names)
         /\ \A i \in 1..Len(tool_results) :
              tool_results[i].tool_call_id = ExpectedId(response, i)

\* the i-th call of response r fails in dispatch: no such tool in the tool
\* set, or the handler call raises
FailingCall(r, i) == r.names[i] \notin ToolSetNames \/ ~r.args[i].mapping

C7_Step ==
    pc = "dispatch" /\ idx <= ZipLen(response) /\ FailingCall(response, idx) =>
        /\ pc' = "dispatch"
        /\ idx' = idx + 1
        /\ Len(tool_results') = Len(tool_results) + 1
        /\ SubSeq(tool_results', 1, Len(tool_results)) = tool_results
        /\ tool_results'[Len(tool_results')].role = "tool"
        /\ tool_results'[Len(tool_results')].tool_call_id = ToolCallIds(response)[idx]
        /\ "failed" \in DOMAIN tool_results'[Len(tool_results')].content
        /\ outcome' = outcome
        /\ out' = out
        /\ store' = store

\* C7: a failing dispatch is recorded as a tool-result entry under the call's
\* id with the failure text and leaves the loop running: the dispatch moves on
\* to the next call, the turn can be finished, and the loop only ever ends in
\* an execution error because a provider call raised
C7_DispatchFailureIsRecorded ==
    /\ [][C7_Step]_vars
    /\ [](pc = "dispatch" /\ idx > ZipLen(response)
            => ENABLED (FinishTurn \/ FinishLastTurn))
    /\ [](outcome.kind = "AgentExecutionError"
            => Replies[Len(Replies)].reply = "raise")

C7_Witness ==
    /\ pc = "call"
    /\ Len(tool_results) = 2
    /\ "failed" \in DOMAIN tool_results[1].content
    /\ "str" \in DOMAIN tool_results[2].content
    /\ messages[Len(messages)] = tool_results[2]

ProviderRaised == \E i \in 1..Len(Replies) : Replies[i].reply = "raise"

CountKind(msgs, kind) == Cardinality({i \in 1..Len(msgs) : msgs[i].kind = kind})

\* C8: once a provider call has raised, the command is over: that call is the
\* last thing done, the loop ended in AgentExecutionError, exactly one failure
\* message and no success message was yielded, and nothing happens afterwards
C8_ProviderErrorAborts ==
    /\ [](ProviderRaised =>
            /\ pc = "done"
            /\ hostlog[Len(hostlog)] = TextChat("raise")
            /\ outcome.kind = "AgentExecutionError"
            /\ CountKind(out, "failure") = 1
            /\ CountKind(out, "success") = 0
            /\ out[Len(out)].kind = "failure")
    /\ [][pc # "done"]_vars

C8_Witness ==
    /\ ProviderRaised
    /\ calls = 2
    /\ Len(tool_results) = 2
    /\ out = <<AnalyzingMessage, FailureMessage("provider error")>>

\* the number of whitespace-separated tokens of a text
TokenCount(msg) ==
    Cardinality({i \in 1..Len(msg) :
                    msg[i] \notin Whitespace
                    /\ (i = 1 \/ msg[i - 1] \in Whitespace)})

\* the command ended with one validation message and did nothing else
RejectedOnly ==
    /\ pc = "done"
    /\ Len(out) = 1
    /\ out[1].kind = "validation"
    /\ hostlog = <<>>
    /\ provider = "none"
    /\ calls = 0
    /\ messages = <<>>
    /\ tool_results = <<>>
    /\ store = InitialStore

\* C10: a command text with fewer than three tokens gets exactly one
\* validation message and nothing else: no provider lookup or call, no tool
\* dispatch, no change of the persona store; and whenever a validation
\* message was yielded, that is all the command did
C10_TooFewTokens ==
    /\ TokenCount(message_str) < 3 /\ pc # "start" => RejectedOnly
    /\ CountKind(out, "validation") > 0 => RejectedOnly

C10_Witness ==
    /\ pc = "done"
    /\ message_str = <<" ", "u", "\n", "p", " ">>
    /\ out = <<ValidationMessage("insufficient arguments")>>

(***************************************************************************)
(* Properties of the tool handlers (under SpecTools)                       *)
(***************************************************************************)
\* a list of strings of even length
WellFormedDialogs(bd) ==
    /\ bd.t = "list"
    /\ \A i \in 1..Len(bd.v) : bd.v[i].t = "str"
    /\ Len(bd.v) % 2 = 0

\* the caller gave the key a value
Supplied(kw, key) == key \in DOMAIN kw /\ kw[key] # None

UpdateReturns ==
    pc = "tool_input" /\ pc' = "tool_done"
    /\ returned'.tool = "update_persona_details"

C4_Step ==
    UpdateReturns /\ Supplied(kwargs, "begin_dialogs")
    /\ ~WellFormedDialogs(kwargs["begin_dialogs"]) =>
        /\ ~returned'.result.json.ok
        /\ returned'.calls = <<>>
        /\ hostlog' = hostlog
        /\ store' = store

\* C4: an update_persona_details call whose begin_dialogs is supplied and is
\* not a list of strings of even length returns an ok:false payload, makes no
\* host call and leaves the store as it was
C4_MalformedDialogsRejected == [][C4_Step]_vars

C4_Witness ==
    /\ pc = "tool_done"
    /\ returned.tool = "update_persona_details"
    /\ "begin_dialogs" \in DOMAIN kwargs
    /\ kwargs["begin_dialogs"] = List(<<Str("hi")>>)
    /\ Get(kwargs, "persona_id") = Str("bert")
    /\ ~returned.result.json.ok

PersonaFields == {"system_prompt", "begin_dialogs", "tools"}

C5_Step ==
    UpdateReturns /\ returned'.result.json.ok =>
        /\ \A f \in PersonaFields :
             /\ f \notin DOMAIN kwargs => store'.bert[f] = store.bert[f]
             /\ f \in DOMAIN kwargs /\ kwargs[f] \in {Str(""), List(<<>>)}
                  => store'.bert[f] = kwargs[f]
        /\ "tools" \in DOMAIN kwargs /\ kwargs["tools"] = None
             => store'.bert.tools = None

\* C5 as stated: a successful update keeps every field the caller did not
\* supply, overwrites a field supplied with an empty value, and treats a
\* supplied None for tools as a value (the persona's tools become unset)
\* rather than as an omission
C5_OmittedVersusSupplied == [][C5_Step]_vars

(***************************************************************************)
(* Properties of _extract_completion_text (under SpecText)                 *)
(***************************************************************************)
\* what follows the first occurrence of the sentinel in t
AfterFirstSentinel(t) ==
    LET first == CHOOSE i \in Occurrences(t, COMPLETION_SENTINEL) :
                    \A j \in Occurrences(t, COMPLETION_SENTINEL) : i <= j
    IN  SubSeq(t, first + Len(COMPLETION_SENTINEL), Len(t))

\* C9 as stated: with the sentinel in the text the summary is the trimmed
\* text after its first occurrence; without it, the trimmed text
C9_AsStated ==
    pc = "text_done" =>
        IF Contains(raw_text, COMPLETION_SENTINEL)
        THEN summary = Strip(AfterFirstSentinel(raw_text))
        ELSE summary = Strip(raw_text)

\* C9 amended: with the sentinel in the text the summary is the trimmed text
\* after its first occurrence, or the sentinel itself when that is empty;
\* without the sentinel, the trimmed text
C9_Summary ==
    pc = "text_done" =>
        IF Contains(raw_text, COMPLETION_SENTINEL)
        THEN IF Strip(AfterFirstSentinel(raw_text)) = <<>>
             THEN summary = COMPLETION_SENTINEL
             ELSE summary = Strip(AfterFirstSentinel(raw_text))
        ELSE summary = Strip(raw_text)

C9_Witness ==
    /\ pc = "text_done"
    /\ raw_text = <<"a">> \o COMPLETION_SENTINEL \o <<" ">>
    /\ summary = COMPLETION_SENTINEL

(***************************************************************************)
(* Provider resolution                                                     *)
(***************************************************************************)
IsLookup(e) == e.op \in {"get_provider_by_id", "get_using_provider"}
Lookups == SelectSeq(hostlog, IsLookup)
\* a provider id is configured: the configured text is not blank
Configured == \E i \in 1..Len(config) : config[i] \notin Whitespace
Found(e) == e.result \notin {"none", "raise"}
\* the command got past parsing and the construction of the tool set
PassedParsing ==
    /\ pc \notin {"start", "escaped"}
    /\ out # <<>>
    /\ out[1].kind # "validation"

\* C11: with a configured provider id the provider is looked up by id and, when
\* found, used; when the lookup misses, the session's active provider is used;
\* with no id configured the active provider is looked up directly.  When the
\* last lookup yields no provider or raises, the command ends with exactly one
\* provider-error message, no acknowledgment and no provider call.
C11_ProviderResolution ==
    PassedParsing =>
        LET ls == Lookups
            last == ls[Len(ls)]
        IN  /\ ls # <<>>
            /\ ls[1].op = IF Configured THEN "get_provider_by_id"
                                        ELSE "get_using_provider"
            /\ Len(ls) = IF Configured /\ ls[1].result = "none" THEN 2 ELSE 1
            /\ Len(ls) = 2 => ls[2].op = "get_using_provider"
            /\ IF Found(last)
               THEN /\ provider = last.result
                    /\ out[1] = AnalyzingMessage
               ELSE /\ provider = "none"
                    /\ pc = "done"
                    /\ Len(out) = 1
                    /\ out[1].kind = "provider error"
                    /\ calls = 0
                    /\ \A i \in 1..Len(hostlog) : ~IsTextChat(hostlog[i])

\* the configured id was not found, the active provider answered a call
C11_Witness ==
    /\ Configured
    /\ Len(Lookups) = 2
    /\ Lookups[1].result = "none"
    /\ provider = "P0"
    /\ calls >= 1

(***************************************************************************)
(* Exceptions and the command handler                                      *)
(***************************************************************************)
\* C13: no exception escapes the command handler: every invocation that has
\* ended has ended by yielding a message, whichever step failed.
C13_NoExceptionEscapes ==
    /\ pc # "escaped"
    /\ pc = "done" => out # <<>>

(***************************************************************************)
(* Messages sent to the chat                                               *)
(***************************************************************************)
\* what the command reports for a final text t: the trimmed text after the
\* first sentinel (the sentinel itself when that is empty), or the trimmed
\* text when there is no sentinel
SummaryOf(t) ==
    IF Contains(t, COMPLETION_SENTINEL)
    THEN IF Strip(AfterFirstSentinel(t)) = <<>>
         THEN COMPLETION_SENTINEL
         ELSE Strip(AfterFirstSentinel(t))
    ELSE Strip(t)

\* C12: a command that passed parsing and provider resolution has sent the
\* acknowledgment first, before any provider call, and nothing else while the
\* loop runs; once the loop has ended it has sent exactly one more message:
\* the success message with the summary extracted from the final text (or
\* from the limit text), or the failure message.
C12_MessageOrder ==
    provider # "none" =>
        /\ out # <<>>
        /\ out[1] = AnalyzingMessage
        /\ calls = 0 => out = <<AnalyzingMessage>>
        /\ pc \in {"call", "dispatch"} => out = <<AnalyzingMessage>>
        /\ pc = "done" =>
              /\ Len(out) = 2
              /\ IF outcome.kind = "returned"
                 THEN /\ out[2].kind = "success"
                      /\ out[2].body =
                            IF outcome.via = "final"
                            THEN SummaryOf(FinalText(response))
                            ELSE SummaryOf(LIMIT_TEXT)
                 ELSE /\ outcome.kind = "AgentExecutionError"
                      /\ out[2].kind = "failure"

\* after two tool-calling turns the final response "hm[AGENT_DONE] ok" is
\* reported as the success message with the summary "ok"
C12_Witness ==
    /\ pc = "done"
    /\ calls = 3
    /\ ~HasToolCalls(response)
    /\ FinalText(response) = <<"h", "m">> \o COMPLETION_SENTINEL \o <<" ", "o", "k">>
    /\ out = <<AnalyzingMessage, SuccessMessage(<<"o", "k">>)>>

(***************************************************************************)
(* The tool handlers' results                                              *)
(***************************************************************************)
\* C14: a handler always returns a payload as text.  The payload is an
\* ok:false error payload when the persona is absent or a call to the host
\* persona manager raised; an ok:true payload carries persona_id,
\* system_prompt, begin_dialogs and tools of the persona as stored.
C14_HandlersReturnPayloads ==
    pc = "tool_done" =>
        LET res == returned.result
            pid == Get(kwargs, "persona_id")
        IN  /\ "json" \in DOMAIN res
            /\ res.json.ok \in BOOLEAN
            /\ Lookup(store, pid) = None => ~res.json.ok
            /\ returned.fault \in {"raise", "refetch_raises"} => ~res.json.ok
            /\ ~res.json.ok => "error" \in DOMAIN res.json
            /\ res.json.ok =>
                  /\ DOMAIN res.json.persona =
                        {"persona_id", "system_prompt", "begin_dialogs", "tools"}
                  /\ res.json.persona.persona_id = pid
                  /\ \A f \in PersonaFields :
                        res.json.persona[f] = Lookup(store, pid)[f]

\* update_persona returned None and the get_persona that followed raised: the
\* update handler made both host calls and returned an error payload
C14_Witness ==
    /\ pc = "tool_done"
    /\ returned.tool = "update_persona_details"
    /\ returned.fault = "refetch_raises"
    /\ Len(returned.calls) = 2
    /\ ~returned.result.json.ok

(***************************************************************************)
(* The rendering of a persona's tools                                      *)
(***************************************************************************)
IsStringList(value) ==
    /\ value.t = "list"
    /\ Len(value.v) > 0
    /\ \A i \in 1..Len(value.v) : value.v[i].t = "str"

\* where the i-th entry starts in the entries joined by a two-character
\* separator
RECURSIVE StartOf(_, _)
StartOf(items, i) ==
    IF i = 1 THEN 1 ELSE StartOf(items, i - 1) + Len(items[i - 1].v) + 2

\* text is the entries of items, in order, with ", " between neighbours
JoinedInOrder(text, items) ==
    LET n == Len(items)
    IN  /\ Len(text) = StartOf(items, n) + Len(items[n].v) - 1
        /\ \A i \in 1..n :
              SubSeq(text, StartOf(items, i),
                     StartOf(items, i) + Len(items[i].v) - 1) = items[i].v
        /\ \A i \in 1..(n - 1) :
              SubSeq(text, StartOf(items, i + 1) - 2,
                     StartOf(items, i + 1) - 1) = <<",", " ">>

\* C15: tools = None is rendered as the 'all tools by default' marker, an
\* empty list or tuple as the 'none' marker, and a non-empty list of strings
\* as its entries joined by ", " in order; the two markers differ and the
\* rendering of a non-empty list of tool names is neither of them.
C15_ToolsRendering ==
    pc = "format_done" =>
        /\ tools = None => tools_text = DEFAULT_ALL_MARKER
        /\ tools.t \in {"list", "tuple"} /\ tools # None =>
              (Len(tools.v) = 0 => tools_text = NONE_MARKER)
        /\ IsStringList(tools) =>
              /\ JoinedInOrder(tools_text, tools.v)
              /\ tools_text \notin {DEFAULT_ALL_MARKER, NONE_MARKER}
        /\ DEFAULT_ALL_MARKER # NONE_MARKER

\* the list ["a", "bc", "a"] has been rendered as "a, bc, a"
C15_Witness ==
    /\ pc = "format_done"
    /\ tools = List(<<Str(<<"a">>), Str(<<"b", "c">>), Str(<<"a">>)>>)
    /\ tools_text = <<"a", ",", " ", "b", "c", ",", " ", "a">>

(***************************************************************************)
(* The transcript and the prompts                                          *)
(***************************************************************************)
IsPrefix(a, b) == Len(a) <= Len(b) /\ SubSeq(b, 1, Len(a)) = a

\* the latest provider call, the calls-th, received a transcript with
\* calls - 1 user entries: the transcript as it stood before this call's
\* prompt was appended as a user entry
CallReceivedEarlierTranscript ==
    calls >= 1 =>
        /\ CountRole(chat_args.contexts, "user") = calls - 1
        /\ IsPrefix(chat_args.contexts, messages)
        /\ Len(messages) > Len(chat_args.contexts) =>
              messages[Len(chat_args.contexts) + 1] =
                  [role |-> "user", content |-> chat_args.prompt]

\* C16: the transcript is empty until the first provider call, every step
\* leaves it an extension of its previous value, and the k-th provider call
\* receives the transcript as it stood before the k-th user entry was
\* appended, with exactly k-1 user entries.
C16_AppendOnlyTranscript ==
    /\ [](calls = 0 => messages = <<>>)
    /\ [][IsPrefix(messages, messages')]_vars
    /\ []CallReceivedEarlierTranscript

\* the third provider call received a transcript with two user entries, and
\* its own user entry has been appended since
C16_Witness ==
    /\ calls = 3
    /\ CountRole(chat_args.contexts, "user") = 2
    /\ Len(chat_args.contexts) > 2
    /\ CountRole(messages, "user") = 3

UserEntries(msgs) == SelectSeq(msgs, LAMBDA m : m.role = "user")

\* C17: no provider call receives an empty prompt: the first call receives
\* the initial user prompt and every later call, each following a
\* tool-calling turn, the single-space placeholder; the first user entry of
\* the transcript holds the initial prompt and every later one the
\* placeholder.
C17_PromptNeverEmpty ==
    /\ calls >= 1 =>
          /\ chat_args.prompt # <<>>
          /\ chat_args.prompt = IF calls = 1 THEN DEFAULT_USER_PROMPT
                                             ELSE TOOL_CALL_PLACEHOLDER_PROMPT
    /\ \A i \in 1..Len(UserEntries(messages)) :
          UserEntries(messages)[i].content =
              IF i = 1 THEN DEFAULT_USER_PROMPT ELSE TOOL_CALL_PLACEHOLDER_PROMPT

\* the second call, after a tool-calling turn, received the placeholder
C17_Witness ==
    /\ calls = 2
    /\ chat_args.prompt = <<" ">>
    /\ Len(UserEntries(messages)) = 2
    /\ UserEntries(messages)[1].content = DEFAULT_USER_PROMPT
    /\ UserEntries(messages)[2].content = <<" ">>

\* the ids of the tool_calls descriptors of an assistant entry, in order
DescriptorIds(entry) ==
    [j \in 1..Len(entry.tool_calls) |-> entry.tool_calls[j].id]

\* C18: each assistant entry of the transcript comes right after a user
\* entry and right before as many tool-result entries as it has tool_calls
\* descriptors, carrying the descriptors' ids in the same order; every
\* tool-result entry is one of those that follow an assistant entry.
C18_TranscriptWellFormed ==
    /\ \A i \in 1..Len(messages) :
          messages[i].role = "assistant" =>
              LET n == Len(messages[i].tool_calls)
              IN  /\ i > 1
                  /\ messages[i - 1].role = "user"
                  /\ i + n <= Len(messages)
                  /\ \A j \in 1..n : messages[i + j].role = "tool"
                  /\ [j \in 1..n |-> messages[i + j].tool_call_id]
                        = DescriptorIds(messages[i])
                  /\ i + n < Len(messages) => messages[i + n + 1].role # "tool"
    /\ \A i \in 1..Len(messages) :
          messages[i].role = "tool" =>
              \E a \in 1..(i - 1) :
                  /\ messages[a].role = "assistant"
                  /\ i - a <= Len(messages[a].tool_calls)

\* an assistant entry with two descriptors, ids sent by the provider, is
\* followed by the two results
C18_Witness ==
    \E i \in 1..Len(messages) :
        /\ messages[i].role = "assistant"
        /\ Len(messages[i].tool_calls) = 2
        /\ messages[i].tool_calls[2].id = ProviderId(1)
        /\ messages[i + 2].tool_call_id = messages[i].tool_calls[2].id

(***************************************************************************)
(* The persona store                                                       *)
(***************************************************************************)
\* the call the dispatch loop is at is an update_persona_details call whose
\* arguments are a mapping with begin_dialogs omitted, None or well formed
DispatchingValidUpdate ==
    /\ pc = "dispatch"
    /\ idx <= ZipLen(response)
    /\ response.names[idx] = "update_persona_details"
    /\ response.args[idx].mapping
    /\ LET begin_dialogs == Get(response.args[idx].kw, "begin_dialogs")
       IN  begin_dialogs = None \/ WellFormedDialogs(begin_dialogs)

C19_Step == store' # store => DispatchingValidUpdate

\* C19: during a command a step changes the persona store only when it is
\* the dispatch of an update_persona_details call whose arguments passed the
\* begin_dialogs validation; every other step (get_persona_detail calls,
\* 'tool not found' dispatches, provider calls, the command handler's own
\* steps) leaves every stored persona as it was.
C19_StoreFrame == [][C19_Step]_vars

\* a command has ended in which an update changed the stored persona and a
\* get call was dispatched as well
C19_Witness ==
    /\ store # InitialStore
    /\ \E i \in 1..Len(hostlog) : IsUpdateCall(hostlog[i])
    /\ \E i \in 1..Len(hostlog) : hostlog[i].op = "get_persona"
    /\ pc = "done"

(***************************************************************************)
(* The sentinel in the final text                                          *)
(***************************************************************************)
FirstSentinel(t) ==
    CHOOSE i \in Occurrences(t, COMPLETION_SENTINEL) :
        \A j \in Occurrences(t, COMPLETION_SENTINEL) : i <= j

Blank(t) == \A i \in 1..Len(t) : t[i] \in Whitespace

\* C20: for a text that contains the sentinel the summary is not empty; it
\* is the trimmed text after the first sentinel when that text is not blank
\* and the sentinel itself when it is; and it is taken from the text from
\* the first sentinel on, never from the text before it.
C20_SentinelEdge ==
    pc = "text_done" /\ Contains(raw_text, COMPLETION_SENTINEL) =>
        LET first == FirstSentinel(raw_text)
            rest == SubSeq(raw_text, first + Len(COMPLETION_SENTINEL),
                           Len(raw_text))
        IN  /\ summary # <<>>
            /\ ~Blank(rest) => summary = Strip(rest)
            /\ Blank(rest) => summary = COMPLETION_SENTINEL
            /\ \E a \in first..Len(raw_text) : \E b \in a..Len(raw_text) :
                  summary = SubSeq(raw_text, a, b)

\* text before the sentinel and only whitespace after it: the summary is the
\* sentinel
C20_Witness ==
    /\ pc = "text_done"
    /\ raw_text = (<<"a">> \o COMPLETION_SENTINEL) \o <<" ">>
    /\ summary = COMPLETION_SENTINEL

====
